---- MODULE Spec2Model ----
(***************************************************************************)
(* Signature-hash computation of lib/transaction/sighash.js: the legacy    *)
(* builder (sighash), the Sapling-era builder (sighashSapling), and the    *)
(* sign / verify pair built on them.                                       *)
(*                                                                         *)
(* Buffers are sequences of bytes (0..255).  A BufferWriter is the         *)
(* sequence of the chunks written to it, toBuffer is their concatenation.  *)
(* The hash primitives are uninterpreted: a hash value is a tag (a number  *)
(* that is no byte) followed by everything that was hashed, so two hash    *)
(* values are equal exactly when the same primitive hashed the same bytes. *)
(* Objects the code may write to (the caller's transaction and script, the *)
(* copies sighash makes) live in a heap record and are written through     *)
(* references, so that a write through an alias reaches the caller.        *)
(***************************************************************************)
EXTENDS Integers, Sequences, FiniteSets, TLC

VARIABLES transaction, signature, last

vars == <<transaction, signature, last>>

----------------------------------------------------------------------------
(* Bounds of the model *)

MaxInputs == 2
MaxOutputs == 2

----------------------------------------------------------------------------
(* Program constants *)

DEFAULT_BRANCH_ID == 1991772603

SIGHASH_ALL == 1
SIGHASH_NONE == 2
SIGHASH_SINGLE == 3
SIGHASH_ANYONECANPAY == 128
OP_CODESEPARATOR == 171

Bytes32(lastByte) == [i \in 1..32 |-> IF i = 32 THEN lastByte ELSE 0]

SIGHASH_SINGLE_BUG_ZERO == Bytes32(0)

SIGHASH_SINGLE_BUG == Bytes32(1)
BITS_64_ON == <<255, 255, 255, 255, 255, 255, 255, 255>>
ZERO == Bytes32(0)

----------------------------------------------------------------------------
(* Byte-level helpers: BufferWriter, BufferReader, BN *)

Reverse(s) == [i \in 1..Len(s) |-> s[Len(s) + 1 - i]]

RECURSIVE Concat(_)
Concat(chunks) == IF chunks = <<>> THEN <<>> ELSE Head(chunks) \o Concat(Tail(chunks))

\* writeUInt32LE / writeInt32LE: four bytes, least significant first; a negative
\* int32 is written in two's complement (\div rounds down, % is non-negative).
Int32LE(x) ==
  <<x % 256, (x \div 256) % 256, (x \div 65536) % 256, (x \div 16777216) % 256>>

\* new BN(number): the 8-byte big-endian magnitude of a small non-negative number
BNFromNumber(n) == <<0, 0, 0, 0>> \o Reverse(Int32LE(n))

\* writeUInt64LEBN(bn): bn.toBuffer({size: 8}) written reversed
UInt64LEBN(bn) == Reverse(bn)

\* writeVarintNum(n) for n < 253: one byte
VarintNum(n) == <<n>>

\* sighashType & 31 and sighashType & SIGHASH_ANYONECANPAY, for sighashType >= 0
Low5(sighashType) == sighashType % 32
AnyoneCanPayBit(sighashType) ==
  ((sighashType \div SIGHASH_ANYONECANPAY) % 2) * SIGHASH_ANYONECANPAY

\* Script.empty() and Script.prototype.removeCodeseparators; a script is its
\* sequence of one-byte opcodes
EmptyScript == <<>>

RECURSIVE removeCodeseparators(_)
removeCodeseparators(script) ==
  IF script = <<>> THEN <<>>
  ELSE IF Head(script) = OP_CODESEPARATOR THEN removeCodeseparators(Tail(script))
  ELSE <<Head(script)>> \o removeCodeseparators(Tail(script))

\* Output.prototype.toBufferWriter
OutputToBuffer(output) ==
  UInt64LEBN(output.satoshis) \o VarintNum(Len(output.script)) \o output.script

\* Input.prototype.toBufferWriter
InputToBuffer(input) ==
  Reverse(input.prevTxId) \o Int32LE(input.outputIndex)
    \o VarintNum(Len(input.script)) \o input.script \o Int32LE(input.sequenceNumber)

\* Transaction.prototype.toBuffer of a transaction with version < 4
TransactionToBuffer(tx) ==
  Int32LE(tx.version)
    \o VarintNum(Len(tx.inputs))
    \o Concat([i \in 1..Len(tx.inputs) |-> InputToBuffer(tx.inputs[i])])
    \o VarintNum(Len(tx.outputs))
    \o Concat([i \in 1..Len(tx.outputs) |-> OutputToBuffer(tx.outputs[i])])
    \o Int32LE(tx.nLockTime)

\* Hash.sha256sha256
sha256sha256(buf) == <<256>> \o buf

\* new BufferReader(ret).readReverse()
readReverse(buf) == Reverse(buf)

----------------------------------------------------------------------------
(* The data the calls work on *)

NullTx ==
  [version |-> 0, nVersionGroupId |-> 0, inputs |-> <<>>, outputs |-> <<>>,
   nLockTime |-> 0, nExpiryHeight |-> 0, valueBalance |-> 0,
   hasBranchId |-> FALSE, branchId |-> 0]

\* the heap of one call: the caller's two objects, and room for the two copies
NewHeap(tx, subscript) ==
  [transaction |-> tx, subscript |-> subscript, txcopy |-> NullTx, scriptcopy |-> <<>>]

NoPreimage == <<>>

----------------------------------------------------------------------------
(* sighashSapling *)

getBlake2bHash(bufferToHash, personalization) ==
  <<257>> \o personalization \o bufferToHash

ZcashPrevoutHash ==
  <<90, 99, 97, 115, 104, 80, 114, 101, 118, 111, 117, 116, 72, 97, 115, 104>>
ZcashSequencHash ==
  <<90, 99, 97, 115, 104, 83, 101, 113, 117, 101, 110, 99, 72, 97, 115, 104>>
ZcashOutputsHash ==
  <<90, 99, 97, 115, 104, 79, 117, 116, 112, 117, 116, 115, 72, 97, 115, 104>>
ZcashSigHash ==
  <<90, 99, 97, 115, 104, 83, 105, 103, 72, 97, 115, 104>>

GetPrevoutHash(tx) ==
  getBlake2bHash(
    Concat([i \in 1..Len(tx.inputs) |->
              Reverse(tx.inputs[i].prevTxId) \o Int32LE(tx.inputs[i].outputIndex)]),
    ZcashPrevoutHash)

GetSequenceHash(tx) ==
  getBlake2bHash(
    Concat([i \in 1..Len(tx.inputs) |-> Int32LE(tx.inputs[i].sequenceNumber)]),
    ZcashSequencHash)

\* GetOutputsHash(tx): every output
GetOutputsHashAll(tx) ==
  getBlake2bHash(
    Concat([i \in 1..Len(tx.outputs) |-> OutputToBuffer(tx.outputs[i])]),
    ZcashOutputsHash)

\* GetOutputsHash(tx, n): the output at (0-based) index n
GetOutputsHashAt(tx, n) ==
  getBlake2bHash(OutputToBuffer(tx.outputs[n + 1]), ZcashOutputsHash)

hashPrevouts(tx, sighashType) ==
  IF AnyoneCanPayBit(sighashType) = 0 THEN GetPrevoutHash(tx) ELSE ZERO

hashSequenceNoSingle(tx, sighashType) ==
  IF AnyoneCanPayBit(sighashType) = 0 /\ Low5(sighashType) # SIGHASH_NONE
    THEN GetSequenceHash(tx) ELSE ZERO

hashSequence(tx, sighashType) ==
  IF /\ AnyoneCanPayBit(sighashType) = 0
     /\ Low5(sighashType) # SIGHASH_SINGLE
     /\ Low5(sighashType) # SIGHASH_NONE
    THEN GetSequenceHash(tx) ELSE ZERO

hashOutputsOffByOne(tx, sighashType, inputNumber) ==
  IF Low5(sighashType) # SIGHASH_SINGLE /\ Low5(sighashType) # SIGHASH_NONE
    THEN GetOutputsHashAll(tx)
  ELSE IF Low5(sighashType) = SIGHASH_SINGLE /\ inputNumber + 1 < Len(tx.outputs)
    THEN GetOutputsHashAt(tx, inputNumber)
  ELSE ZERO

hashOutputs(tx, sighashType, inputNumber) ==
  IF Low5(sighashType) # SIGHASH_SINGLE /\ Low5(sighashType) # SIGHASH_NONE
    THEN GetOutputsHashAll(tx)
  ELSE IF Low5(sighashType) = SIGHASH_SINGLE /\ inputNumber < Len(tx.outputs)
    THEN GetOutputsHashAt(tx, inputNumber)
  ELSE ZERO

\* transaction.version | (1 << 31), for 0 <= version < 2^31
header(tx) == tx.version + (-2147483647 - 1)

\* JavaScript truthiness of transaction.branchId: undefined and 0 are falsy
consensusBranchId(tx) ==
  IF tx.hasBranchId /\ tx.branchId # 0 THEN tx.branchId ELSE DEFAULT_BRANCH_ID

\* Buffer.alloc(16), then the prefix at 0 and the branch id at prefix.length
personalizationOf(tx) == ZcashSigHash \o Int32LE(consensusBranchId(tx))

\* the chunks written to the writer, in order
SaplingPreimage(tx, sighashType, inputNumber, subscript) ==
  LET input == tx.inputs[inputNumber + 1]
  IN << Int32LE(header(tx)),
        Int32LE(tx.nVersionGroupId),
        hashPrevouts(tx, sighashType),
        hashSequence(tx, sighashType),
        hashOutputs(tx, sighashType, inputNumber),
        ZERO,
        ZERO,
        ZERO,
        Int32LE(tx.nLockTime),
        Int32LE(tx.nExpiryHeight),
        UInt64LEBN(BNFromNumber(tx.valueBalance)),
        Int32LE(sighashType),
        Reverse(input.prevTxId),
        Int32LE(input.outputIndex),
        VarintNum(Len(subscript)),
        subscript,
        UInt64LEBN(BNFromNumber(input.output.satoshis)),
        Int32LE(input.sequenceNumber) >>

sighashSapling(h, sighashType, inputNumber) ==
  LET tx           == h.transaction
      preimage     == SaplingPreimage(tx, sighashType, inputNumber, h.subscript)
      pers         == personalizationOf(tx)
      ret          == getBlake2bHash(Concat(preimage), pers)
  IN [heap |-> h,
      ret |-> readReverse(ret),
      trace |-> <<"sighashSapling", "blake2b">>,
      serialized |-> NullTx,
      preimage |-> preimage,
      personalization |-> pers]

----------------------------------------------------------------------------
(* sighash: the legacy builder *)

\* Transaction.shallowCopy(transaction): a new Transaction object holding the
\* caller's fields
shallowCopy(h) == [h EXCEPT !.txcopy = h.transaction]

\* var txcopy = transaction: no copy, the caller's object itself
AliasTransaction(h) == [heap |-> h, ref |-> "transaction"]

\* var txcopy = Transaction.shallowCopy(transaction)
CopyTransaction(h) == [heap |-> shallowCopy(h), ref |-> "txcopy"]

\* subscript = new Script(subscript): a new Script object with the same bytes
CopyScript(h) == [heap |-> [h EXCEPT !.scriptcopy = h.subscript], ref |-> "scriptcopy"]

\* txcopy.inputs[i] = new Input(txcopy.inputs[i]).setScript(Script.empty()), every i
BlankInputs(h, t) ==
  [h EXCEPT ![t].inputs =
     [i \in 1..Len(@) |-> [@[i] EXCEPT !.script = EmptyScript]]]

\* txcopy.inputs[inputNumber] = new Input(txcopy.inputs[inputNumber]).setScript(subscript)
SetSubscript(h, t, s, inputNumber) ==
  [h EXCEPT ![t].inputs[inputNumber + 1].script = h[s]]

\* the loop that clears the sequence numbers of the other inputs
ClearSequenceNumbers(h, t, sighashType, inputNumber) ==
  IF Low5(sighashType) = SIGHASH_NONE \/ Low5(sighashType) = SIGHASH_SINGLE
    THEN [h EXCEPT ![t].inputs =
            [i \in 1..Len(@) |->
               IF i - 1 # inputNumber THEN [@[i] EXCEPT !.sequenceNumber = 0] ELSE @[i]]]
    ELSE h

\* the condition of the SIGHASH_SINGLE bug
SingleBug(inputNumber, outputsLength) == inputNumber >= outputsLength

\* new Output({satoshis: BN.fromBuffer(BITS_64_ON), script: Script.empty()})
NullOutput == [satoshis |-> BITS_64_ON, script |-> EmptyScript]

SingleOutputsKeepEarlier(h, t, inputNumber) ==
  [h EXCEPT ![t].outputs = SubSeq(@, 1, inputNumber + 1)]

\* txcopy.outputs.length = inputNumber + 1, then the null outputs before inputNumber
SingleOutputs(h, t, inputNumber) ==
  [h EXCEPT ![t].outputs =
     [i \in 1..(inputNumber + 1) |-> IF i - 1 < inputNumber THEN NullOutput ELSE @[i]]]

KeepAllInputs(h, t, sighashType, inputNumber) == h

\* txcopy.inputs = [txcopy.inputs[inputNumber]] under SIGHASH_ANYONECANPAY
CollapseInputs(h, t, sighashType, inputNumber) ==
  IF AnyoneCanPayBit(sighashType) # 0
    THEN [h EXCEPT ![t].inputs = <<@[inputNumber + 1]>>]
    ELSE h

sighashLegacy(h0, sighashType, inputNumber) ==
  LET c   == CopyTransaction(h0)
      t   == c.ref
      sc  == CopyScript(c.heap)
      s   == sc.ref
      h2  == [sc.heap EXCEPT ![s] = removeCodeseparators(@)]
      h3  == BlankInputs(h2, t)
      h4  == SetSubscript(h3, t, s, inputNumber)
      h5  == ClearSequenceNumbers(h4, t, sighashType, inputNumber)
      sel == Low5(sighashType)
      bug == sel = SIGHASH_SINGLE /\ SingleBug(inputNumber, Len(h5[t].outputs))
      h6  == IF sel = SIGHASH_NONE THEN [h5 EXCEPT ![t].outputs = <<>>]
             ELSE IF sel = SIGHASH_SINGLE /\ ~bug THEN SingleOutputs(h5, t, inputNumber)
             ELSE h5
      h7  == CollapseInputs(h6, t, sighashType, inputNumber)
      preimage == <<TransactionToBuffer(h7[t]), Int32LE(sighashType)>>
  IN IF bug
       THEN [heap |-> h5,
             ret |-> SIGHASH_SINGLE_BUG,
             trace |-> <<"shallowCopy">>,
             serialized |-> NullTx,
             preimage |-> NoPreimage,
             personalization |-> <<>>]
       ELSE [heap |-> h7,
             ret |-> readReverse(sha256sha256(Concat(preimage))),
             trace |-> <<"shallowCopy", "toBuffer", "sha256sha256">>,
             serialized |-> h7[t],
             preimage |-> preimage,
             personalization |-> <<>>]

----------------------------------------------------------------------------
(* sighash: the dispatch *)

IsSaplingAbove(tx) == tx.version > 4

\* transaction.version >= 4
IsSapling(tx) == tx.version >= 4

sighash(h, sighashType, inputNumber) ==
  LET r == IF IsSapling(h.transaction)
             THEN sighashSapling(h, sighashType, inputNumber)
             ELSE sighashLegacy(h, sighashType, inputNumber)
  IN [r EXCEPT !.trace = <<"sighash">> \o @]

----------------------------------------------------------------------------
(* sign and verify *)

PublicKeyOf(privateKey) == privateKey + 100

\* ECDSA.sign(hashbuf, privateKey, endian)
ECDSAsign(hashbuf, privateKey, endian) ==
  [hashbuf |-> hashbuf, signer |-> PublicKeyOf(privateKey), endian |-> endian]

\* ECDSA.verify(hashbuf, sig, publicKey, endian)
ECDSAverify(hashbuf, sig, publicKey, endian) ==
  sig.hashbuf = hashbuf /\ sig.signer = publicKey /\ sig.endian = endian

NoSig == [hashbuf |-> <<>>, signer |-> 0, endian |-> "none"]

signAlwaysAll(h, privateKey, sighashType, inputIndex) ==
  LET d == sighash(h, sighashType, inputIndex)
  IN [d EXCEPT !.ret = [sig |-> ECDSAsign(d.ret, privateKey, "little"),
                        hasType |-> TRUE, nhashtype |-> SIGHASH_ALL]]

sign(h, privateKey, sighashType, inputIndex) ==
  LET d == sighash(h, sighashType, inputIndex)
  IN [d EXCEPT !.ret = [sig |-> ECDSAsign(d.ret, privateKey, "little"),
                        hasType |-> TRUE, nhashtype |-> sighashType]]

\* the outcome of a call that threw from $.checkArgument
InvalidArgument(h) ==
  [heap |-> h, thrown |-> TRUE, value |-> FALSE, trace |-> <<"checkArgument">>,
   ret |-> <<>>, preimage |-> NoPreimage]

verifyNoTypeCheck(h, txDefined, sigDefined, sig, publicKey, inputIndex) ==
  IF ~txDefined THEN InvalidArgument(h)
  ELSE IF ~sigDefined THEN InvalidArgument(h)
  ELSE LET d == sighash(h, IF sig.hasType THEN sig.nhashtype ELSE 0, inputIndex)
       IN [heap |-> d.heap, thrown |-> FALSE,
           value |-> ECDSAverify(d.ret, sig.sig, publicKey, "little"),
           trace |-> <<"checkArgument", "checkArgument">> \o d.trace \o <<"ECDSA.verify">>,
           ret |-> d.ret, preimage |-> d.preimage]

verify(h, txDefined, sigDefined, sig, publicKey, inputIndex) ==
  IF ~txDefined THEN InvalidArgument(h)
  ELSE IF ~(sigDefined /\ sig.hasType) THEN InvalidArgument(h)
  ELSE LET d == sighash(h, sig.nhashtype, inputIndex)
       IN [heap |-> d.heap, thrown |-> FALSE,
           value |-> ECDSAverify(d.ret, sig.sig, publicKey, "little"),
           trace |-> <<"checkArgument", "checkArgument">> \o d.trace \o <<"ECDSA.verify">>,
           ret |-> d.ret, preimage |-> d.preimage]

----------------------------------------------------------------------------
(* The callers: transactions, arguments, and the three entry points *)

SigHashTypes == {1, 2, 3, 67, 129, 130, 131}
Subscripts == {<<118, 172>>, <<118, 171, 172>>}
Amounts == {1, 2}
PrivateKeys == {1}
PublicKeys == {101, 102}

\* version, and the branch id the transaction carries (if it carries one)
VersionsAndBranches ==
  { <<3, FALSE, 0>>, <<4, FALSE, 0>>, <<4, TRUE, 0>>, <<4, TRUE, 1537743641>>,
    <<5, FALSE, 0>> }

TxId == [i \in 1..32 |-> IF i = 1 THEN 17 ELSE 0]

Input(outputIndex, sequenceNumber) ==
  [prevTxId |-> TxId, outputIndex |-> outputIndex, sequenceNumber |-> sequenceNumber,
   script |-> <<81>>, output |-> [satoshis |-> 1000]]

Inputs == { Input(0, 2147483647), Input(1, 2147483647), Input(1, 0) }

Outputs == { [satoshis |-> BNFromNumber(a), script |-> <<118, 172>>] : a \in Amounts }

SeqsUpTo(S, n) == UNION { [1..k -> S] : k \in 0..n }

Transactions ==
  { [version |-> vb[1], nVersionGroupId |-> 63210096, inputs |-> ins, outputs |-> outs,
     nLockTime |-> 500, nExpiryHeight |-> 600, valueBalance |-> 0,
     hasBranchId |-> vb[2], branchId |-> vb[3]] :
      vb \in VersionsAndBranches,
      ins \in SeqsUpTo(Inputs, MaxInputs) \ {<<>>},
      outs \in SeqsUpTo(Outputs, MaxOutputs) }

\* the transactions the sign / verify specification starts from
SignTransactions ==
  { tx \in Transactions :
      /\ tx.version \in {3, 4}
      /\ ~tx.hasBranchId
      /\ \A i \in 1..Len(tx.inputs) : tx.inputs[i] = Input(0, 2147483647)
      /\ \A i \in 1..Len(tx.outputs) : tx.outputs[i].satoshis = BNFromNumber(1) }

NoSignature ==
  [made |-> FALSE, sig |-> NoSig, hasType |-> FALSE, nhashtype |-> 0,
   transaction |-> NullTx, privateKey |-> 0, inputIndex |-> 0, subscript |-> <<>>]

NoCall ==
  [op |-> "none", thrown |-> FALSE, txDefined |-> FALSE, sigDefined |-> FALSE,
   sigHasType |-> FALSE, sighashType |-> 0, inputNumber |-> 0,
   subscript |-> <<>>, subscriptAfter |-> <<>>, txBefore |-> NullTx, txAfter |-> NullTx,
   publicKey |-> 0, value |-> FALSE, ret |-> <<>>, trace |-> <<>>,
   serialized |-> NullTx, preimage |-> NoPreimage, personalization |-> <<>>]

Init ==
  /\ transaction \in Transactions
  /\ signature = NoSignature
  /\ last = NoCall

InitSign ==
  /\ transaction \in SignTransactions
  /\ signature = NoSignature
  /\ last = NoCall

\* sighash(transaction, sighashType, inputNumber, subscript)
CallSighash ==
  /\ last.op = "none"
  /\ \E sighashType \in SigHashTypes, subscript \in Subscripts :
    \E inputNumber \in 0..(Len(transaction.inputs) - 1) :
      \E r \in {sighash(NewHeap(transaction, subscript), sighashType, inputNumber)} :
         /\ transaction' = r.heap.transaction
         /\ last' = [NoCall EXCEPT
                       !.op = "sighash", !.txDefined = TRUE,
                       !.sighashType = sighashType, !.inputNumber = inputNumber,
                       !.subscript = subscript, !.subscriptAfter = r.heap.subscript,
                       !.txBefore = transaction, !.txAfter = r.heap.transaction,
                       !.ret = r.ret, !.trace = r.trace, !.serialized = r.serialized,
                       !.preimage = r.preimage, !.personalization = r.personalization]
         /\ UNCHANGED signature

\* sign(transaction, privateKey, sighashType, inputIndex, subscript)
CallSign ==
  /\ last.op = "none"
  /\ \E sighashType \in SigHashTypes, subscript \in Subscripts, privateKey \in PrivateKeys :
    \E inputIndex \in 0..(Len(transaction.inputs) - 1) :
      \E r \in {sign(NewHeap(transaction, subscript), privateKey, sighashType, inputIndex)} :
         /\ transaction' = r.heap.transaction
         /\ signature' = [made |-> TRUE, sig |-> r.ret.sig, hasType |-> r.ret.hasType,
                          nhashtype |-> r.ret.nhashtype,
                          transaction |-> transaction, privateKey |-> privateKey,
                          inputIndex |-> inputIndex, subscript |-> subscript]
         /\ last' = [NoCall EXCEPT
                       !.op = "sign", !.txDefined = TRUE,
                       !.sighashType = sighashType, !.inputNumber = inputIndex,
                       !.subscript = subscript, !.subscriptAfter = r.heap.subscript,
                       !.txBefore = transaction, !.txAfter = r.heap.transaction,
                       !.publicKey = PublicKeyOf(privateKey),
                       !.ret = r.ret.sig.hashbuf, !.trace = r.trace]

\* verify(transaction, signature, publicKey, inputIndex, subscript); the
\* transaction and the signature may be undefined, and the signature may be
\* one that carries no nhashtype
CallVerify ==
  /\ last.op = "none"
  /\ \E txDefined \in BOOLEAN, sigDefined \in {FALSE, signature.made}, keepType \in BOOLEAN,
     publicKey \in PublicKeys, subscript \in Subscripts :
    \E inputIndex \in 0..(Len(transaction.inputs) - 1) :
      \E sig \in {[signature EXCEPT !.hasType = @ /\ keepType]} :
      \E r \in {verify(NewHeap(transaction, subscript), txDefined, sigDefined, sig,
                        publicKey, inputIndex)} :
         /\ transaction' = r.heap.transaction
         /\ last' = [NoCall EXCEPT
                       !.op = "verify", !.thrown = r.thrown,
                       !.txDefined = txDefined, !.sigDefined = sigDefined,
                       !.sigHasType = sigDefined /\ sig.hasType,
                       !.sighashType = sig.nhashtype, !.inputNumber = inputIndex,
                       !.subscript = subscript, !.subscriptAfter = r.heap.subscript,
                       !.txBefore = transaction, !.txAfter = r.heap.transaction,
                       !.publicKey = publicKey, !.value = r.value,
                       !.ret = r.ret, !.trace = r.trace, !.preimage = r.preimage]
         /\ UNCHANGED signature

\* the caller is done with the result of its call; nothing of a call outlives it
Discard ==
  /\ last.op # "none"
  /\ last' = NoCall
  /\ UNCHANGED <<transaction, signature>>

Next == CallSighash \/ Discard

Spec == Init /\ [][Next]_vars

NextSign == CallSign \/ CallVerify \/ Discard

SpecSign == InitSign /\ [][NextSign]_vars

----------------------------------------------------------------------------
(* Properties *)

Range(f) == { f[i] : i \in DOMAIN f }

Zero32 == [i \in 1..32 |-> 0]
One32 == [i \in 1..32 |-> IF i = 32 THEN 1 ELSE 0]

IsSighashCall == last.op = "sighash"
LegacyCall == IsSighashCall /\ last.txBefore.version < 4
SaplingCall == IsSighashCall /\ last.txBefore.version >= 4
Selector == last.sighashType % 32
AnyoneCanPay == (last.sighashType \div 128) % 2 = 1

\* C1: verify of a signature made by sign over the same transaction, input
\* index and subscript, under the public key of the signing key, returns true.
SignVerifyRoundTrip ==
  ( /\ last.op = "verify"
    /\ last.txDefined /\ last.sigDefined /\ last.sigHasType
    /\ signature.made
    /\ last.txBefore = signature.transaction
    /\ last.inputNumber = signature.inputIndex
    /\ last.subscript = signature.subscript
    /\ last.publicKey = PublicKeyOf(signature.privateKey) )
  => (~last.thrown /\ last.value = TRUE)

RoundTripWitness ==
  /\ last.op = "verify" /\ last.value = TRUE
  /\ signature.made /\ signature.nhashtype = 131
  /\ last.txBefore = signature.transaction
  /\ last.txBefore.version = 4

\* C2: on the legacy path, selector SINGLE with inputNumber at or beyond the
\* output count returns the 32 bytes 00..0001, and nothing was serialized or
\* hashed.
LegacySingleBug ==
  ( /\ LegacyCall
    /\ Selector = 3
    /\ last.inputNumber >= Len(last.txBefore.outputs) )
  => ( /\ last.ret = One32
       /\ last.preimage = <<>>
       /\ "toBuffer" \notin Range(last.trace)
       /\ "sha256sha256" \notin Range(last.trace) )

LegacySingleBugWitness ==
  /\ LegacyCall
  /\ last.sighashType = 131
  /\ last.inputNumber = 1
  /\ Len(last.txBefore.outputs) = 1
  /\ last.ret = One32

\* C3: verify throws the precondition violation, before sighash is entered,
\* exactly when the transaction, the signature or the signature's nhashtype is
\* undefined; otherwise it enters sighash with the signature's nhashtype.
VerifyPreconditions ==
  last.op = "verify" =>
    IF ~last.txDefined \/ ~last.sigDefined \/ ~last.sigHasType
      THEN /\ last.thrown
           /\ last.trace = <<"checkArgument">>
           /\ last.ret = <<>>
      ELSE /\ ~last.thrown
           /\ "sighash" \in Range(last.trace)
           /\ last.sighashType = signature.nhashtype
           /\ \/ last.preimage = <<>>
              \/ /\ last.txBefore.version >= 4
                 /\ last.preimage[12] = Int32LE(signature.nhashtype)
              \/ /\ last.txBefore.version < 4
                 /\ last.preimage[2] = Int32LE(signature.nhashtype)

VerifyThrowsWitness ==
  /\ last.op = "verify"
  /\ last.txDefined /\ last.sigDefined /\ ~last.sigHasType
  /\ last.thrown

\* C4: a sighash call leaves the caller's transaction and the caller's
\* subscript as they were.
SighashFrame ==
  IsSighashCall =>
    /\ last.txAfter = last.txBefore
    /\ transaction = last.txBefore
    /\ last.subscriptAfter = last.subscript

SighashFrameWitness ==
  /\ LegacyCall
  /\ last.sighashType = 131
  /\ last.inputNumber = 1
  /\ Len(last.txBefore.outputs) = 2
  /\ 171 \in Range(last.subscript)
  /\ last.serialized # last.txBefore
  /\ Len(last.serialized.inputs) = 1

\* the transactions that differ from tx at most in the script and the sequence
\* number of the inputs other than inputNumber
OtherInputVariants(tx, inputNumber) ==
  { [tx EXCEPT !.inputs =
       [i \in 1..Len(@) |->
          IF i - 1 = inputNumber THEN @[i]
          ELSE [@[i] EXCEPT !.script = v[i][1], !.sequenceNumber = v[i][2]]]] :
      v \in [1..Len(tx.inputs) -> {<<81>>, <<82, 83>>} \X {0, 7}] }

\* C5: on the legacy path with SIGHASH_ANYONECANPAY, the digest is the same for
\* every transaction that differs only in the script or sequence number of the
\* other inputs.
LegacyAnyoneCanPayIndependence ==
  (LegacyCall /\ AnyoneCanPay) =>
    \A tx2 \in OtherInputVariants(last.txBefore, last.inputNumber) :
      sighash(NewHeap(tx2, last.subscript), last.sighashType, last.inputNumber).ret
        = last.ret

AnyoneCanPayWitness ==
  /\ LegacyCall
  /\ last.sighashType = 129
  /\ Len(last.txBefore.inputs) = 2
  /\ last.inputNumber = 0
  /\ Len(last.preimage) = 2
  /\ \E tx2 \in OtherInputVariants(last.txBefore, last.inputNumber) :
       tx2.inputs[2].sequenceNumber # last.txBefore.inputs[2].sequenceNumber

\* C6: in the Sapling-era preimage the prevouts hash is zero exactly when
\* ANYONECANPAY is set, the sequence hash is zero exactly when ANYONECANPAY is
\* set or the selector is SINGLE or NONE, and otherwise each is the personalized
\* hash over all inputs.
SaplingSubHashes ==
  SaplingCall =>
    /\ last.preimage[3] =
         IF AnyoneCanPay THEN Zero32 ELSE GetPrevoutHash(last.txBefore)
    /\ last.preimage[4] =
         IF AnyoneCanPay \/ Selector = 3 \/ Selector = 2
           THEN Zero32 ELSE GetSequenceHash(last.txBefore)
    /\ (last.preimage[3] = Zero32) <=> AnyoneCanPay
    /\ (last.preimage[4] = Zero32) <=> (AnyoneCanPay \/ Selector = 3 \/ Selector = 2)

SaplingSubHashesWitness ==
  /\ SaplingCall
  /\ last.sighashType = 131
  /\ Len(last.txBefore.inputs) = 2
  /\ last.preimage[3] = Zero32
  /\ last.preimage[4] = Zero32

\* C7: in the Sapling-era preimage the outputs hash covers every output unless
\* the selector is SINGLE or NONE, covers only the output at inputNumber for
\* SINGLE within range, and is zero otherwise; the legacy constant is never the
\* digest.
SaplingOutputsHash ==
  SaplingCall =>
    /\ last.preimage[5] =
         IF Selector # 3 /\ Selector # 2
           THEN GetOutputsHashAll(last.txBefore)
         ELSE IF Selector = 3 /\ last.inputNumber < Len(last.txBefore.outputs)
           THEN GetOutputsHashAt(last.txBefore, last.inputNumber)
         ELSE Zero32
    /\ last.ret # One32

SaplingOutputsHashWitness ==
  /\ SaplingCall
  /\ last.sighashType = 131
  /\ last.inputNumber = 0
  /\ Len(last.txBefore.outputs) = 2
  /\ last.preimage[5] = GetOutputsHashAt(last.txBefore, 0)
  /\ last.preimage[5] # GetOutputsHashAll(last.txBefore)

\* C8: sighash runs the Sapling-era builder exactly when the version is at
\* least 4 and the legacy builder otherwise, never both.
DispatchByVersion ==
  IsSighashCall =>
    /\ ("sighashSapling" \in Range(last.trace)) <=> (last.txBefore.version >= 4)
    /\ ("shallowCopy" \in Range(last.trace)) <=> (last.txBefore.version < 4)
    /\ last.txBefore.version >= 4 => Len(last.preimage) = 18
    /\ last.txBefore.version < 4 => Len(last.preimage) \in {0, 2}

DispatchWitness ==
  /\ IsSighashCall
  /\ last.txBefore.version = 4
  /\ "sighashSapling" \in Range(last.trace)
  /\ "shallowCopy" \notin Range(last.trace)

\* C9: the personalization of the final Sapling-era hash is 'ZcashSigHash'
\* followed by the little-endian branch id, which is the transaction's own
\* whenever it carries one (0 included) and the default otherwise.
SaplingBranchIdPersonalization ==
  SaplingCall =>
    last.personalization =
      <<90, 99, 97, 115, 104, 83, 105, 103, 72, 97, 115, 104>>
        \o Int32LE(IF last.txBefore.hasBranchId
                     THEN last.txBefore.branchId ELSE 1991772603)

\* C10: legacy SINGLE within range: the serialized copy has inputNumber+1
\* outputs, null outputs before inputNumber and the caller's output at
\* inputNumber; the other inputs have sequence number 0 and an empty script, and
\* the signing input keeps its sequence number and carries the subscript
\* without codeseparators.
LegacySingleWithinRange ==
  ( /\ LegacyCall
    /\ Selector = 3
    /\ last.inputNumber < Len(last.txBefore.outputs) )
  => LET n    == last.inputNumber
         ser  == last.serialized
         pos  == IF AnyoneCanPay THEN 1 ELSE n + 1
     IN /\ Len(ser.outputs) = n + 1
        /\ \A i \in 1..n :
             ser.outputs[i] =
               [satoshis |-> <<255, 255, 255, 255, 255, 255, 255, 255>>, script |-> <<>>]
        /\ ser.outputs[n + 1] = last.txBefore.outputs[n + 1]
        /\ Len(ser.inputs) = IF AnyoneCanPay THEN 1 ELSE Len(last.txBefore.inputs)
        /\ \A i \in 1..Len(ser.inputs) :
             i # pos => ser.inputs[i].sequenceNumber = 0 /\ ser.inputs[i].script = <<>>
        /\ ser.inputs[pos].sequenceNumber = last.txBefore.inputs[n + 1].sequenceNumber
        /\ ser.inputs[pos].script = SelectSeq(last.subscript, LAMBDA b : b # 171)
        /\ ser.inputs[pos].prevTxId = last.txBefore.inputs[n + 1].prevTxId
        /\ ser.inputs[pos].outputIndex = last.txBefore.inputs[n + 1].outputIndex
        /\ last.preimage[1] = TransactionToBuffer(ser)

LegacySingleWitness ==
  /\ LegacyCall
  /\ last.sighashType = 3
  /\ last.inputNumber = 1
  /\ Len(last.txBefore.outputs) = 2
  /\ Len(last.serialized.inputs) = 2
  /\ last.txBefore.inputs[1].sequenceNumber # 0
  /\ last.serialized.inputs[1].sequenceNumber = 0
  /\ 171 \in Range(last.subscript)

====
